---- MODULE Spec2Model ----
(***************************************************************************)
(* V2Device: the JSON-over-SysEx management plane of a MIDI device.        *)
(* The model follows src/src/V2Device.cpp and src/src/V2Device.h: the      *)
(* configuration record and the EEPROM are byte arrays, begin() and        *)
(* handleSystemExclusive() are the actions, and every call the handler     *)
(* makes into a collaborator (transport, EEPROM, flash, reset) is logged   *)
(* in `trace`, which is emptied when the next request is handled.          *)
(***************************************************************************)
EXTENDS Integers, Sequences, FiniteSets, TLC

VARIABLES
  pc,             \* "reset" (before begin()), "running" (in loop()), "return" (the handler has made
                  \* its calls and is about to return), "drain" (the flush loop of writeFirmware)
  eeprom,         \* persistent storage, EepromSize bytes
  _configuration, \* struct Configuration, SizeofConfiguration bytes
  system,         \* system.name and system.ports
  configuration,  \* the collaborator's device-specific section: magic, size, data registered
  localData,      \* the bytes configuration.data points to
  bootData,       \* retained ".noinit" memory: n_ports, _magic
  _boot,          \* _boot.id, the token of this boot
  usb,            \* what begin() announced to the USB stack
  secondary,      \* secondary firmware bank: bootloader copy and image bytes
  primary,        \* the image the device runs
  drain,          \* the flush loop: packets pending in the transport, elapsed time
  req,            \* the request handleSystemExclusive() was last called with
  trace           \* the collaborator calls made while handling req

vars == <<pc, eeprom, _configuration, system, configuration, localData, bootData,
          _boot, usb, secondary, primary, drain, req, trace>>

----------------------------------------------------------------------------
(* Bounds of the model *)

\* Capacity in bytes of the collaborator's device-specific section.
LocalCap == 2
\* Number of distinct values V2Cryptography::Random::read() is drawn from.
NTokens == 2
\* Flash block size of the platform, in bytes.
BlockSize == 3
\* Number of flash blocks of the secondary image area.
NumBlocks == 2
\* Largest number of packets a queued reply leaves pending in the transport.
MaxPending == 2
\* Time that passes between two looks at micros(), in milliseconds.
TickStep == 50
\* Size in bytes of the system exclusive buffer (12 KiB on the device).
sysex_max_size == 48

----------------------------------------------------------------------------
(* Program constants *)

SizeofHeader == 8
NameOffset == 8
SizeofName == 32
PortsOffset == 40
LocalMagicOffset == 44
LocalSizeOffset == 48
SizeofConfiguration == 52
ErasedByte == 255
MinLen == 24
MaxPorts == 16
DrainDeadline == 100
UsbPid == 59696

----------------------------------------------------------------------------
(* Bytes, words and C strings *)

Byte == 0..255

\* A uint32_t is the pair <<upper 16 bits, lower 16 bits>>.
U32(n) == <<0, n>>

\* The magic numbers: 0x7ed63a89 of struct Configuration, 0x8f734e41 of BootData,
\* and the one the collaborator registers for its section (0x12345678 here).
ConfigMagic == <<32470, 14985>>
BootMagic == <<36723, 20033>>
LocalMagic == <<4660, 22136>>

\* A uint32_t as it lies in memory (little endian).
U32Bytes(w) == <<w[2] % 256, w[2] \div 256, w[1] % 256, w[1] \div 256>>

\* The uint32_t at byte offset off (0-based) of mem.
U32At(mem, off) ==
  CHOOSE w \in {<<m[off + 3] + 256 * m[off + 4], m[off + 1] + 256 * m[off + 2]>> : m \in {mem}} : TRUE

\* w > n and w <= n for a uint32_t w and a number n below 2^16.
U32Gt(w, n) == w[1] > 0 \/ w[2] > n
U32Leq(w, n) == ~U32Gt(w, n)

\* n bytes of value b.
Fill(n, b) == [i \in 1..n |-> b]

\* memcpy(dst + off, src, n): dst with its bytes off..off+n-1 (0-based) taken from src.
Memcpy(dst, off, src, n) ==
  CHOOSE m \in {[i \in 1..Len(d) |-> IF i > off /\ i <= off + n THEN s[i - off] ELSE d[i]] :
                  d \in {dst}, s \in {src}} : TRUE

\* strlen(): the number of bytes before the first NUL of s (all of s when it has none).
Strlen(s) ==
  CHOOSE n \in {IF z = {} THEN Len(s) ELSE (CHOOSE i \in z : \A j \in z : i <= j) - 1 :
                  z \in {{i \in 1..Len(s) : s[i] = 0}}} : TRUE

\* The C string that starts at byte offset off of mem.
CStr(mem, off) ==
  CHOOSE str \in {SubSeq(tail, 1, Strlen(tail)) : tail \in {SubSeq(mem, off + 1, Len(mem))}} : TRUE

----------------------------------------------------------------------------
(* struct Configuration *)

\* The record as constructed: magic, size, name[32] zeroed, ports 1, padding, local{} zeroed.
DefaultConfiguration ==
  U32Bytes(ConfigMagic) \o U32Bytes(U32(SizeofConfiguration)) \o Fill(SizeofName, 0)
    \o <<1>> \o Fill(3, 0) \o U32Bytes(U32(0)) \o U32Bytes(U32(0))

HeaderMagic(c) == U32At(c, 0)
HeaderSize(c) == U32At(c, 4)
ConfigName(c) == CStr(c, NameOffset)
ConfigPorts(c) == c[PortsOffset + 1]
LocalMagicOf(c) == U32At(c, LocalMagicOffset)
LocalSizeOf(c) == U32At(c, LocalSizeOffset)

\* system as constructed.  name.tag is "null" (NULL), "cfg" (points to
\* _configuration.name), "json" (points into the request's JSON document, which
\* lives on the handler's stack) or "dangling" (that handler has returned).
DefaultSystem ==
  [name  |-> [tag |-> "null", val |-> <<>>],
   ports |-> [configured |-> 1, announce |-> 1, current |-> 1, reboot |-> 0]]

EepromSize == SizeofConfiguration + LocalCap

ImageSize == NumBlocks * BlockSize

----------------------------------------------------------------------------
(* ConfigurationStore: readEEPROM() and writeConfiguration() *)

\* HeaderAccepted with "<" for "<=" in the check against the header-only size.
HeaderAcceptedFromHeaderSize(e, c) ==
  /\ HeaderMagic(e) = HeaderMagic(c)
  /\ U32Gt(HeaderSize(e), SizeofHeader - 1)
  /\ ~U32Gt(HeaderSize(e), SizeofConfiguration)

\* The three header checks of readEEPROM(); the magic is compared with the one of
\* the record in memory.
HeaderAccepted(e, c) ==
  /\ HeaderMagic(e) = HeaderMagic(c)
  /\ ~U32Leq(HeaderSize(e), SizeofHeader)
  /\ ~U32Gt(HeaderSize(e), SizeofConfiguration)

\* LocalAccepted with ">=" for ">" in the check against the collaborator's capacity.
LocalAcceptedBelowCapacity(e, cdesc) ==
  /\ cdesc.data
  /\ LocalMagicOf(e) = cdesc.magic
  /\ LocalSizeOf(e) # U32(0)
  /\ ~U32Gt(LocalSizeOf(e), cdesc.size - 1)

\* The four checks of the device-specific section, read from the EEPROM itself.
LocalAccepted(e, cdesc) ==
  /\ cdesc.data
  /\ LocalMagicOf(e) = cdesc.magic
  /\ LocalSizeOf(e) # U32(0)
  /\ ~U32Gt(LocalSizeOf(e), cdesc.size)

\* ReadEEPROM that applies the common section only when the device-specific
\* section passes its checks as well.
ReadEEPROMAllOrNothing(e, c, sys, cdesc, local) ==
  IF ~(HeaderAccepted(e, c) /\ LocalAccepted(e, cdesc))
    THEN [cfg |-> c, sys |-> sys, local |-> local]
    ELSE
      LET hs   == HeaderSize(e)[2]
          ls   == LocalSizeOf(e)[2]
          c1   == Memcpy(c, 0, e, hs)
          sys1 == IF c1[NameOffset + 1] # 0
                    THEN [sys EXCEPT !.name = [tag |-> "cfg", val |-> <<>>]]
                    ELSE sys
          sys2 == IF ConfigPorts(c1) > 1
                    THEN [sys1 EXCEPT !.ports.configured = ConfigPorts(c1)]
                    ELSE sys1
      IN  [cfg |-> c1, sys |-> sys2,
           local |-> Memcpy(local, 0, SubSeq(e, hs + 1, hs + ls), ls)]

\* readEEPROM(): the record, system and the collaborator's buffer after the call.
ReadEEPROM(e, c, sys, cdesc, local) ==
  IF ~HeaderAccepted(e, c)
    THEN [cfg |-> c, sys |-> sys, local |-> local]
    ELSE
      LET hs   == HeaderSize(e)[2]
          ls   == LocalSizeOf(e)[2]
          c1   == Memcpy(c, 0, e, hs)
          sys1 == IF c1[NameOffset + 1] # 0
                    THEN [sys EXCEPT !.name = [tag |-> "cfg", val |-> <<>>]]
                    ELSE sys
          sys2 == IF ConfigPorts(c1) > 1
                    THEN [sys1 EXCEPT !.ports.configured = ConfigPorts(c1)]
                    ELSE sys1
          l1   == IF LocalAccepted(e, cdesc)
                    THEN Memcpy(local, 0, SubSeq(e, hs + 1, hs + ls), ls)
                    ELSE local
      IN  [cfg |-> c1, sys |-> sys2, local |-> l1]

\* StampedConfiguration without the assignment of header.size.
StampedWithoutSize(c, cdesc) ==
  LET c2 == Memcpy(c, LocalMagicOffset, U32Bytes(cdesc.magic), 4)
  IN  Memcpy(c2, LocalSizeOffset, U32Bytes(U32(cdesc.size)), 4)

\* The record as writeConfiguration() stamps it before writing.
StampedConfiguration(c, cdesc) ==
  LET c1 == Memcpy(c, 4, U32Bytes(U32(SizeofConfiguration)), 4)
      c2 == Memcpy(c1, LocalMagicOffset, U32Bytes(cdesc.magic), 4)
  IN  Memcpy(c2, LocalSizeOffset, U32Bytes(U32(cdesc.size)), 4)

\* The EEPROM after writeConfiguration(): the common record at 0, the payload behind it.
WrittenEeprom(e, c, cdesc, local) ==
  LET e1 == Memcpy(e, 0, StampedConfiguration(c, cdesc), SizeofConfiguration)
  IN  IF cdesc.size > 0
        THEN Memcpy(e1, SizeofConfiguration, local, cdesc.size)
        ELSE e1

----------------------------------------------------------------------------
(* The collaborator and the contents the EEPROM can hold at power-up *)

\* The device-specific section a device class registers: none, or LocalCap bytes.
Collaborators ==
  {[magic |-> U32(0), size |-> 0, data |-> FALSE],
   [magic |-> LocalMagic, size |-> LocalCap, data |-> TRUE]}

\* The collaborator's buffer as constructed.
LocalDefault(cdesc) == Fill(cdesc.size, 0)

\* Payloads importConfiguration() can store.
Payloads == {[i \in 1..LocalCap |-> i]}

\* An EEPROM image: a record with the given header and fields, then a payload.
EepromImage(magic, size, name, ports, lmagic, lsize, payload) ==
  LET rec == U32Bytes(magic) \o U32Bytes(U32(size))
               \o name \o Fill(SizeofName - Len(name), 0)
               \o <<ports>> \o Fill(3, ErasedByte)
               \o U32Bytes(lmagic) \o U32Bytes(U32(lsize))
  IN  rec \o payload \o Fill(EepromSize - SizeofConfiguration - Len(payload), ErasedByte)

StoredName == <<67, 68>>

InitialEeproms ==
  { Fill(EepromSize, ErasedByte),
    EepromImage(LocalMagic, SizeofConfiguration, StoredName, 3, LocalMagic, LocalCap, Fill(LocalCap, 5)),
    EepromImage(ConfigMagic, SizeofHeader, StoredName, 3, LocalMagic, LocalCap, Fill(LocalCap, 5)),
    EepromImage(ConfigMagic, SizeofConfiguration + 1, StoredName, 3, LocalMagic, LocalCap, Fill(LocalCap, 5)),
    EepromImage(ConfigMagic, SizeofConfiguration, StoredName, 3, LocalMagic, LocalCap, Fill(LocalCap, 5)),
    EepromImage(ConfigMagic, NameOffset + 1, StoredName, 3, LocalMagic, LocalCap, Fill(LocalCap, 5)) }

\* Retained memory at power-up is undefined: the guard magic is absent, or present
\* by chance together with any port count.
ColdBootData ==
  {[n_ports |-> 5, _magic |-> U32(0)], [n_ports |-> 5, _magic |-> BootMagic]}

Tokens == 1..NTokens

----------------------------------------------------------------------------
(* Startup *)

\* Event records of `trace`: a collaborator call and what it was called with.
Event(op, arg) == [op |-> op, arg |-> arg]
NoArg == [none |-> TRUE]

\* A request before any field is set; len 0 marks that no request was handled.
NoToken == -1
Absent == -1
NoRequest ==
  [len |-> 0, id |-> 0, braces |-> FALSE, parses |-> FALSE, hasDevice |-> FALSE,
   token |-> NoToken, method |-> "none", hasChannel |-> FALSE,
   rebootPorts |-> Absent, hasConfig |-> FALSE, hasUsb |-> FALSE, hasName |-> FALSE,
   name |-> <<>>, ports |-> Absent, hasLocal |-> FALSE, local |-> <<>>,
   hasFirmware |-> FALSE, offset |-> 0, data |-> <<>>, hasHash |-> FALSE, hash |-> 0]

\* BootData::BootData(): retained memory is kept when the guard magic is there.
BootDataConstructed(bd) ==
  IF bd._magic = BootMagic THEN bd ELSE [n_ports |-> 0, _magic |-> BootMagic]

\* begin(), lines 86-88: the port count carried over from the previous boot cycle.
CarriedPorts(sys, bd) ==
  IF bd.n_ports > 1 THEN [sys EXCEPT !.ports.reboot = bd.n_ports] ELSE sys

\* BootData::clear() that leaves n_ports as it is.
BootDataKept(bd) == bd

\* BootData::clear()
BootDataCleared(bd) == [bd EXCEPT !.n_ports = 0]

\* begin(), lines 122-127: the number of USB MIDI ports.
ActivePorts(sys) ==
  IF sys.ports.reboot > 1 THEN sys.ports.reboot
  ELSE IF sys.ports.configured > 1 THEN sys.ports.configured
  ELSE 1

\* begin(), lines 129-132.
PortsApplied(sys) ==
  IF ActivePorts(sys) > 1 THEN [sys EXCEPT !.ports.current = ActivePorts(sys)] ELSE sys

Init ==
  /\ pc = "reset"
  /\ configuration \in Collaborators
  /\ eeprom \in InitialEeproms
  /\ _configuration = DefaultConfiguration
  /\ system = DefaultSystem
  /\ localData = LocalDefault(configuration)
  /\ bootData \in ColdBootData
  /\ _boot = 0
  /\ usb = [pid |-> UsbPid, ports |-> 1]
  /\ secondary = [boot |-> FALSE, fw |-> Fill(ImageSize, ErasedByte)]
  /\ primary = Fill(ImageSize, 0)
  /\ drain = [pending |-> 0, elapsed |-> 0]
  /\ req = NoRequest
  /\ trace = <<>>

\* Static construction followed by begin().
Begin ==
  /\ pc = "reset"
  /\ \E id \in Tokens :
       LET bd   == BootDataConstructed(bootData)
           sys0 == CarriedPorts(DefaultSystem, bd)
           rd   == ReadEEPROM(eeprom, DefaultConfiguration, sys0, configuration,
                              LocalDefault(configuration))
           sys1 == PortsApplied(rd.sys)
       IN  /\ _boot' = id
           /\ bootData' = BootDataCleared(bd)
           /\ _configuration' = rd.cfg
           /\ localData' = rd.local
           /\ system' = sys1
           /\ usb' = [pid |-> UsbPid + ActivePorts(rd.sys) - 1, ports |-> ActivePorts(rd.sys)]
  /\ pc' = "running"
  /\ req' = NoRequest
  /\ trace' = <<>>
  /\ drain' = [pending |-> 0, elapsed |-> 0]
  /\ UNCHANGED <<eeprom, configuration, secondary, primary>>

\* A reset the firmware did not ask for (reset button, watchdog): memory is retained.
ExternalReset ==
  /\ pc = "running"
  /\ pc' = "reset"
  /\ req' = NoRequest
  /\ trace' = <<>>
  /\ UNCHANGED <<eeprom, _configuration, system, configuration, localData, bootData,
                 _boot, usb, secondary, primary, drain>>

----------------------------------------------------------------------------
(* The replies *)

\* Marks a name that is not in the reply (a C string holds no NUL).
NoName == <<0>>

\* What a dangling system.name can read as.
DanglingNames == {<<>>, <<63>>}

\* The values system.name can have while the handler of a request with usb.name n runs.
SystemNames(sys, c) ==
  CASE sys.name.tag = "null" -> {NoName}
    [] sys.name.tag = "cfg" -> {ConfigName(c)}
    [] sys.name.tag = "json" -> {sys.name.val}
    [] sys.name.tag = "dangling" -> DanglingNames

\* utf8Codepoint(utf8 + i): the length of the sequence and its codepoint, or the
\* length -1.  The byte after the document is the terminating zero.
Utf8Codepoint(json, i) ==
  LET at(k) == IF k <= Len(json) THEN json[k] ELSE 0
      b0 == json[i]
      len == CASE b0 < 128 -> 1
               [] b0 \div 32 = 6 -> 2
               [] b0 \div 16 = 14 -> 3
               [] b0 \div 8 = 30 -> 4
               [] b0 \div 4 = 62 -> 5
               [] b0 \div 2 = 126 -> 6
               [] OTHER -> -1
      first == CASE len = 1 -> b0
                 [] len = 2 -> b0 % 32
                 [] len = 3 -> b0 % 16
                 [] len = 4 -> b0 % 8
                 [] len = 5 -> b0 % 4
                 [] OTHER -> b0 % 2
      cont[k \in 1..6] ==
        IF k = 1 THEN first ELSE cont[k - 1] * 64 + (at(i + k - 1) % 64)
  IN  IF len = -1 \/ \E k \in 1..(len - 1) : at(i + k) \div 64 # 2
        THEN [len |-> -1, codepoint |-> 0]
        ELSE [len |-> len, codepoint |-> cont[len]]

\* sprintf("%04x") of a value below 0x10000, as ASCII.
Hex4(n) ==
  LET digit(d) == IF d < 10 THEN 48 + d ELSE 87 + d
  IN  <<digit((n \div 4096) % 16), digit((n \div 256) % 16), digit((n \div 16) % 16), digit(n % 16)>>

\* Lines 280-282 on a uint32_t codepoint: codepoint -= 0x10000 wraps below 0x10000,
\* and the high surrogate is cut to a uint16_t.
Surrogate1(codepoint) ==
  ((IF codepoint >= 65536 THEN 0 ELSE 4194304) + ((codepoint - 65536) \div 1024) + 55296) % 65536
Surrogate2(codepoint) == ((codepoint - 65536) % 1024) + 56320

\* What an uninitialized uint32_t codepoint can hold.
UninitializedCodepoints == {65, 128512}

\* The loop of escapeJSON() from byte i on, out being the bytes written so far; the
\* result is the bytes of the returned length, none when it returns 0.  The int8_t
\* of utf8Codepoint() is stored in a uint8_t, and a codepoint it did not set is
\* read as garbage.
RECURSIVE EscapeFrom(_, _, _, _, _)
EscapeFrom(json, i, out, size, garbage) ==
  IF i > Len(json) THEN out
  ELSE IF json[i] > 127
    THEN LET u == Utf8Codepoint(json, i)
             len == u.len % 256
             codepoint == IF u.len = -1 THEN garbage ELSE u.codepoint
         IN  IF codepoint < 65535
               THEN IF Len(out) + 7 > size THEN <<>>
                    ELSE EscapeFrom(json, i + len, out \o <<92, 117>> \o Hex4(codepoint),
                                    size, garbage)
               ELSE IF Len(out) + 13 > size THEN <<>>
                    ELSE EscapeFrom(json, i + len,
                                    out \o <<92, 117>> \o Hex4(Surrogate1(codepoint))
                                        \o <<92, 117>> \o Hex4(Surrogate2(codepoint)),
                                    size, garbage)
    ELSE IF Len(out) >= size THEN <<>>
         ELSE EscapeFrom(json, i + 1, Append(out, json[i]), size, garbage)

\* escapeJSON()
EscapeJSON(json, size, garbage) == EscapeFrom(json, 1, <<>>, size, garbage)

\* serializeJson() of the document, as far as the model follows it: the system name,
\* when there is one, and the name of the configuration section, cut at the size of
\* the buffer.
Serialized(sysName, cfgName) ==
  LET doc == <<123>> \o (IF sysName = NoName THEN <<>> ELSE sysName) \o <<44>> \o cfgName \o <<125>>
  IN  SubSeq(doc, 1, IF Len(doc) > sysex_max_size THEN sysex_max_size ELSE Len(doc))

\* Lines 319-324 and 466-473: the message sendReply() hands to sendSystemExclusive().
ReplyMessage(json, garbage) ==
  <<240, 125>> \o EscapeJSON(json, sysex_max_size - 2, garbage) \o <<247>>

\* sendReply(): the fields of the full-state document the model follows, the
\* serialized document and the message sent.
FullState(id, sys, sysName, c, garbage) ==
  Event("sendReply",
        [token      |-> id,
         json       |-> Serialized(sysName, ConfigName(c)),
         message    |-> ReplyMessage(Serialized(sysName, ConfigName(c)), garbage),
         name       |-> sysName,
         configured |-> IF sys.ports.announce > 0 THEN sys.ports.configured ELSE Absent,
         current    |-> IF sys.ports.announce > 0 THEN sys.ports.current ELSE Absent,
         cfgName    |-> ConfigName(c),
         cfgPorts   |-> IF sys.ports.announce > 0 THEN ConfigPorts(c) ELSE Absent])

\* sendFirmwareStatus()
FirmwareStatus(id, status) ==
  Event("sendFirmwareStatus", [token |-> id, status |-> status])

\* system once the handler has returned: a pointer into its JSON document dangles.
Returned(sys) ==
  IF sys.name.tag = "json" THEN [sys EXCEPT !.name = [tag |-> "dangling", val |-> <<>>]] ELSE sys

\* handleSystemExclusive() returns to loop(); its JSON document goes out of scope.
Return ==
  /\ pc = "return"
  /\ pc' = "running"
  /\ system' = Returned(system)
  /\ req' = NoRequest
  /\ trace' = <<>>
  /\ UNCHANGED <<eeprom, _configuration, configuration, localData, bootData, _boot, usb,
                 secondary, primary, drain>>

----------------------------------------------------------------------------
(* handleSystemExclusive(): framing, token, and the methods without firmware *)

\* Framed without the check of the length.
FramedWithoutLength(r) ==
  /\ r.id = 125
  /\ r.braces
  /\ r.parses
  /\ r.hasDevice

\* Lines 478-497: length, private id, braces, JSON, device object.
Framed(r) ==
  /\ ~(r.len < MinLen)
  /\ r.id = 125
  /\ r.braces
  /\ r.parses
  /\ r.hasDevice

\* The token check left out.
TokenAcceptedAlways(r, id) == TRUE

\* Line 500: a token that is there has to be the one of this boot.
TokenAccepted(r, id) == ~(r.token # NoToken /\ r.token # id)

Methods ==
  {"getAll", "eraseConfiguration", "switchChannel", "reboot", "writeConfiguration",
   "writeFirmware"}

Dispatched(r, m) == Framed(r) /\ TokenAccepted(r, _boot) /\ r.method = m

\* uint8_t p = <JSON integer>: a value the type cannot hold converts to 0.
AsUint8(v) == IF v \in 0..255 THEN v ELSE 0

\* The request is dropped: bad framing, a stale token, or no method that is known.
Dropped(r) ==
  /\ pc = "running"
  /\ ~(Framed(r) /\ TokenAccepted(r, _boot) /\ r.method \in Methods)
  /\ req' = r
  /\ trace' = <<>>
  /\ pc' = "return"
  /\ UNCHANGED <<eeprom, _configuration, system, configuration, localData,
                 bootData, _boot, usb, secondary, primary, drain>>

GetAll(r) ==
  /\ pc = "running"
  /\ Dispatched(r, "getAll")
  /\ req' = r
  /\ \E n \in SystemNames(system, _configuration), g \in UninitializedCodepoints :
       trace' = <<FullState(_boot, system, n, _configuration, g)>>
  /\ pc' = "return"
  /\ UNCHANGED <<eeprom, _configuration, system, configuration, localData,
                 bootData, _boot, usb, secondary, primary, drain>>

\* An erase that covers the device-specific section only.
ErasedLocalSection(e) ==
  [i \in 1..Len(e) |-> IF i <= SizeofConfiguration THEN e[i] ELSE ErasedByte]

\* EEPROM::erase()
Erased(e) == Fill(Len(e), ErasedByte)

EraseConfiguration(r) ==
  /\ pc = "running"
  /\ Dispatched(r, "eraseConfiguration")
  /\ req' = r
  /\ eeprom' = Erased(eeprom)
  /\ trace' = <<Event("EEPROM::erase", NoArg), Event("Firmware::reboot", NoArg)>>
  /\ pc' = "reset"
  /\ UNCHANGED <<_configuration, system, configuration, localData, bootData, _boot,
                 usb, secondary, primary, drain>>

SwitchChannel(r) ==
  /\ pc = "running"
  /\ Dispatched(r, "switchChannel")
  /\ req' = r
  /\ \E n \in SystemNames(system, _configuration), g \in UninitializedCodepoints :
       trace' = (IF r.hasChannel THEN <<Event("handleSwitchChannel", NoArg)>> ELSE <<>>)
                  \o <<FullState(_boot, system, n, _configuration, g)>>
  /\ pc' = "return"
  /\ UNCHANGED <<eeprom, _configuration, system, configuration, localData,
                 bootData, _boot, usb, secondary, primary, drain>>

\* Lines 523-524: the port count stashed for the next boot.
StashedPorts(r, bd) ==
  IF r.rebootPorts # Absent THEN [bd EXCEPT !.n_ports = AsUint8(r.rebootPorts)] ELSE bd

Reboot(r) ==
  /\ pc = "running"
  /\ Dispatched(r, "reboot")
  /\ req' = r
  /\ bootData' = StashedPorts(r, bootData)
  /\ trace' = <<Event("Firmware::reboot", NoArg)>>
  /\ pc' = "reset"
  /\ UNCHANGED <<eeprom, _configuration, system, configuration, localData, _boot,
                 usb, secondary, primary, drain>>

\* Lines 538-548: usb.name.
NameApplied(r, c, sys) ==
  IF ~r.hasName THEN [cfg |-> c, sys |-> sys]
  ELSE IF Len(r.name) > 1 /\ Len(r.name) < 32
    THEN [cfg |-> Memcpy(c, NameOffset, r.name \o <<0>>, Len(r.name) + 1),
          sys |-> [sys EXCEPT !.name = [tag |-> "json", val |-> r.name]]]
    ELSE [cfg |-> Memcpy(c, NameOffset, Fill(SizeofName, 0), SizeofName),
          sys |-> [sys EXCEPT !.name = [tag |-> "null", val |-> <<>>]]]

\* Lines 550-556: usb.ports.
PortsAppliedFrom(r, c, sys) ==
  IF r.ports # Absent /\ AsUint8(r.ports) >= 1 /\ AsUint8(r.ports) <= MaxPorts
    THEN [cfg |-> Memcpy(c, PortsOffset, <<AsUint8(r.ports)>>, 1),
          sys |-> [sys EXCEPT !.ports.configured = AsUint8(r.ports)]]
    ELSE [cfg |-> c, sys |-> sys]

\* Lines 536-557: the usb object merged into the record and system.
UsbApplied(r, c, sys) ==
  IF ~r.hasUsb THEN [cfg |-> c, sys |-> sys]
  ELSE LET a == NameApplied(r, c, sys)
       IN  PortsAppliedFrom(r, a.cfg, a.sys)

\* Lines 560-561: importConfiguration() of the collaborator.
Imported(r, cdesc, local) ==
  IF cdesc.size > 0 /\ r.hasLocal THEN r.local ELSE local

WriteConfiguration(r) ==
  /\ pc = "running"
  /\ Dispatched(r, "writeConfiguration")
  /\ req' = r
  /\ \E a \in {UsbApplied(r, _configuration, system)},
        l \in {Imported(r, configuration, localData)} :
     \E c \in {IF r.hasConfig THEN StampedConfiguration(a.cfg, configuration) ELSE _configuration},
        s \in {IF r.hasConfig THEN a.sys ELSE system} :
         /\ _configuration' = c
         /\ system' = s
         /\ localData' = IF r.hasConfig THEN l ELSE localData
         /\ eeprom' = IF r.hasConfig
                        THEN WrittenEeprom(eeprom, a.cfg, configuration, l)
                        ELSE eeprom
         /\ \E n \in SystemNames(s, c), g \in UninitializedCodepoints :
              trace' = (IF r.hasConfig
                          THEN <<Event("EEPROM::write", [record |-> c, payload |-> l])>>
                          ELSE <<>>)
                         \o <<FullState(_boot, s, n, c, g)>>
  /\ pc' = "return"
  /\ UNCHANGED <<configuration, bootData, _boot, usb, secondary, primary, drain>>

----------------------------------------------------------------------------
(* FirmwareUpdateController: writeFirmware *)

\* Base64 text is a sequence of alphabet indices 0..63, Pad standing for '='.
Pad == 64

RECURSIVE Base64Encode(_)
Base64Encode(b) ==
  IF Len(b) = 0 THEN <<>>
  ELSE IF Len(b) = 1
    THEN <<b[1] \div 4, (b[1] % 4) * 16, Pad, Pad>>
  ELSE IF Len(b) = 2
    THEN <<b[1] \div 4, (b[1] % 4) * 16 + b[2] \div 16, (b[2] % 16) * 4, Pad>>
  ELSE <<b[1] \div 4, (b[1] % 4) * 16 + b[2] \div 16, (b[2] % 16) * 4 + b[3] \div 64,
         b[3] % 64>> \o Base64Encode(SubSeq(b, 4, Len(b)))

\* V2Cryptography::Base64::decode(): the bytes the text stands for.
RECURSIVE Base64Decode(_)
Base64Decode(t) ==
  IF Len(t) < 4 THEN <<>>
  ELSE LET b1 == t[1] * 4 + t[2] \div 16
           b2 == (t[2] % 16) * 16 + t[3] \div 4
           b3 == (t[3] % 4) * 64 + t[4]
       IN  (IF t[3] = Pad THEN <<b1>>
            ELSE IF t[4] = Pad THEN <<b1, b2>>
            ELSE <<b1, b2, b3>>) \o Base64Decode(SubSeq(t, 5, Len(t)))

\* Stand-in for the content hash verify() computes over a byte range.
Digest(bytes) ==
  LET h[i \in 0..Len(bytes)] == IF i = 0 THEN 7 ELSE (h[i - 1] * 31 + bytes[i]) % 65521
  IN  h[Len(bytes)]

\* Aligned that lets an offset one past a block boundary through.
AlignedOrOnePast(offset) == ~(offset % BlockSize > 1)

\* Line 577: the offset has to be a multiple of the flash block size.
Aligned(offset) == ~(offset % BlockSize # 0)

\* PaddedBlock that fills the rest of the block with zero.
PaddedWithZero(data) ==
  Base64Decode(data) \o Fill(BlockSize - Len(Base64Decode(data)), 0)

\* Lines 587-589: the decoded bytes, padded to a block with the erased-flash byte.
PaddedBlock(data) ==
  LET bytes == Base64Decode(data)
  IN  bytes \o Fill(BlockSize - Len(bytes), ErasedByte)

\* writeBlock() that erases a block that is not erased and leaves it at that.
BlockErasedWhenDirty(sec, offset, block) ==
  [sec EXCEPT !.fw =
     Memcpy(sec.fw, offset,
            IF SubSeq(sec.fw, offset + 1, offset + BlockSize) = Fill(BlockSize, ErasedByte)
              THEN block ELSE Fill(BlockSize, ErasedByte),
            BlockSize)]

\* Secondary::writeBlock(offset, block)
BlockWritten(sec, offset, block) ==
  [sec EXCEPT !.fw = Memcpy(sec.fw, offset, block, BlockSize)]

\* Secondary::copyBootloader()
BootloaderCopied(sec) == [sec EXCEPT !.boot = TRUE]

\* verify() called with the offset of the last block instead of the end of its data:
\* the hash of the image without the bytes of the final chunk.
VerifiedWithoutLastChunk(sec, len, hash) ==
  Digest(SubSeq(sec.fw, 1, ((len - 1) \div BlockSize) * BlockSize)) = hash

\* verify() whose result is not looked at.
VerifiedAlways(sec, len, hash) == TRUE

\* Secondary::verify(len, hash): the hash of the first len bytes of the image area.
Verified(sec, len, hash) == Digest(SubSeq(sec.fw, 1, len)) = hash

\* Lines 576-625 up to the last status call the handler makes before it returns or
\* enters the flush loop.
WriteFirmware(r) ==
  /\ pc = "running"
  /\ Dispatched(r, "writeFirmware")
  /\ req' = r
  /\ IF ~r.hasFirmware
       THEN /\ trace' = <<>>
            /\ pc' = "return"
            /\ UNCHANGED <<secondary, drain>>
     ELSE IF ~Aligned(r.offset)
       THEN /\ trace' = <<FirmwareStatus(_boot, "invalidOffset")>>
            /\ pc' = "return"
            /\ UNCHANGED <<secondary, drain>>
     ELSE
       LET block == PaddedBlock(r.data)
           len   == Len(Base64Decode(r.data))
           sec1  == BlockWritten(secondary, r.offset, block)
           sec2  == BootloaderCopied(sec1)
           wr    == Event("Secondary::writeBlock", [offset |-> r.offset, block |-> block])
       IN  IF ~r.hasHash
             THEN /\ secondary' = sec1
                  /\ trace' = <<wr, FirmwareStatus(_boot, "success")>>
                  /\ pc' = "return"
                  /\ UNCHANGED drain
           ELSE IF Verified(sec2, r.offset + len, r.hash)
             THEN /\ secondary' = sec2
                  /\ trace' = <<wr, Event("Secondary::copyBootloader", NoArg),
                                Event("Secondary::verify", [ok |-> TRUE]),
                                FirmwareStatus(_boot, "success")>>
                  /\ pc' = "drain"
                  /\ \E k \in 1..MaxPending : drain' = [pending |-> k, elapsed |-> 0]
             ELSE /\ secondary' = sec2
                  /\ trace' = <<wr, Event("Secondary::copyBootloader", NoArg),
                                Event("Secondary::verify", [ok |-> FALSE]),
                                FirmwareStatus(_boot, "hashMismatch")>>
                  /\ pc' = "return"
                  /\ UNCHANGED drain
  /\ UNCHANGED <<eeprom, _configuration, system, configuration, localData, bootData,
                 _boot, usb, primary>>

\* loopSystemExclusive(): the transport takes the next pending packet, or is busy.
PendingAfterLoop(d, sent) ==
  IF sent /\ d.pending > 0 THEN d.pending - 1 ELSE d.pending

\* The flush loop without its deadline.
DrainDoneWhenEmpty(pending, elapsed) == pending = 0

\* Lines 605-609: the two ways out of the flush loop.
DrainDone(pending, elapsed) == pending = 0 \/ elapsed > DrainDeadline

\* Lines 604-611: one turn of the flush loop that ends in yield().
DrainYield ==
  /\ pc = "drain"
  /\ \E sent \in BOOLEAN :
       /\ ~DrainDone(PendingAfterLoop(drain, sent), drain.elapsed)
       /\ drain' = [drain EXCEPT !.pending = PendingAfterLoop(drain, sent)]
  /\ UNCHANGED <<pc, eeprom, _configuration, system, configuration, localData, bootData,
                 _boot, usb, secondary, primary, req, trace>>

\* Time passes while the handler is in the flush loop.
Tick ==
  /\ pc = "drain"
  /\ drain.elapsed <= DrainDeadline
  /\ drain' = [drain EXCEPT !.elapsed = drain.elapsed + TickStep]
  /\ UNCHANGED <<pc, eeprom, _configuration, system, configuration, localData, bootData,
                 _boot, usb, secondary, primary, req, trace>>

\* Secondary::activate() that returns: the handler goes on to line 622.
StatusAfterReturningActivate(id) == <<FirmwareStatus(id, "hashMismatch")>>

\* Lines 619-622: the status calls the handler still makes once it has called
\* Secondary::activate(): none, the call resets the device and does not return.
StatusAfterActivate(id) == <<>>

\* Lines 605-619: the turn of the flush loop that breaks, then delay() and
\* Secondary::activate(), which swaps the banks and resets.
Activate ==
  /\ pc = "drain"
  /\ \E sent \in BOOLEAN :
       /\ DrainDone(PendingAfterLoop(drain, sent), drain.elapsed)
       /\ drain' = [drain EXCEPT !.pending = PendingAfterLoop(drain, sent)]
  /\ trace' = Append(trace, Event("Secondary::activate", NoArg)) \o StatusAfterActivate(_boot)
  /\ primary' = secondary.fw
  /\ secondary' = [boot |-> FALSE, fw |-> primary]
  /\ pc' = "reset"
  /\ UNCHANGED <<eeprom, _configuration, system, configuration, localData, bootData,
                 _boot, usb, req>>

----------------------------------------------------------------------------
(* The requests a host sends *)

\* A well-framed request for method m carrying token t.
Request(m, t) ==
  [NoRequest EXCEPT !.len = 64, !.id = 125, !.braces = TRUE, !.parses = TRUE,
                    !.hasDevice = TRUE, !.method = m, !.token = t]

TokenChoices == {NoToken} \union Tokens

Name1 == <<65>>
Name2 == <<65, 66>>
Name31 == Fill(31, 110)
Name32 == Fill(32, 110)

\* writeConfiguration with a configuration.usb object.
UsbRequest(t, hasName, name, ports, hasLocal, local) ==
  [Request("writeConfiguration", t) EXCEPT !.hasConfig = TRUE, !.hasUsb = TRUE,
     !.hasName = hasName, !.name = name, !.ports = ports,
     !.hasLocal = hasLocal, !.local = local]

NameChoices == {<<>>, Name1, Name2, Name31, Name32}
PortChoices == {0, 1, MaxPorts, MaxPorts + 1, 260}

WriteConfigurationRequests ==
  {UsbRequest(NoToken, TRUE, n, Absent, FALSE, <<>>) : n \in NameChoices}
    \union {UsbRequest(NoToken, FALSE, <<>>, p, FALSE, <<>>) : p \in PortChoices}
    \union {UsbRequest(NoToken, TRUE, n, p, FALSE, <<>>) :
              n \in {Name1, Name2, Name32}, p \in {MaxPorts, MaxPorts + 1}}
    \union {UsbRequest(NoToken, FALSE, <<>>, Absent, TRUE, l) : l \in Payloads}
    \union {Request("writeConfiguration", NoToken),
            [Request("writeConfiguration", NoToken) EXCEPT !.hasConfig = TRUE]}

RebootRequests ==
  {[Request("reboot", NoToken) EXCEPT !.rebootPorts = p] : p \in {Absent, 1, 2, 200}}

SwitchChannelRequests ==
  {[Request("switchChannel", NoToken) EXCEPT !.hasChannel = c] : c \in BOOLEAN}

\* One request per way of being dropped before dispatch, each asking for a change.
MalformedRequests ==
  LET r == UsbRequest(NoToken, TRUE, Name2, 4, FALSE, <<>>)
  IN  {[r EXCEPT !.len = MinLen - 1], [r EXCEPT !.id = 126], [r EXCEPT !.braces = FALSE],
       [r EXCEPT !.parses = FALSE], [r EXCEPT !.hasDevice = FALSE],
       [r EXCEPT !.method = "unknown"], [r EXCEPT !.method = "none"]}

ConfigurationRequests ==
  WriteConfigurationRequests \union RebootRequests \union SwitchChannelRequests
    \union MalformedRequests
    \union {Request("getAll", NoToken), Request("eraseConfiguration", NoToken)}

\* The chunks of an image a host sends, and the images it hashes.
Chunks == {Fill(BlockSize, 1), Fill(BlockSize, 2), Fill(1, 3)}
Images == {Fill(BlockSize, 1), Fill(BlockSize, 1) \o Fill(1, 3)}
Hashes == {Digest(i) : i \in Images} \union {0}

FirmwareRequest(t, offset, chunk, hasHash, hash) ==
  [Request("writeFirmware", t) EXCEPT !.hasFirmware = TRUE, !.offset = offset,
     !.data = Base64Encode(chunk), !.hasHash = hasHash, !.hash = hash]

Offsets == {0, 1, BlockSize, BlockSize + 1}

FirmwareRequests ==
  {FirmwareRequest(NoToken, o, c, FALSE, 0) : o \in Offsets, c \in Chunks}
    \union {FirmwareRequest(NoToken, o, c, TRUE, h) : o \in Offsets, c \in Chunks, h \in Hashes}
    \union {Request("writeFirmware", NoToken), Request("getAll", NoToken)}

\* One state-changing request per method, with every choice of token.
TokenRequests ==
  {[r EXCEPT !.token = t] :
     r \in {Request("getAll", NoToken),
            Request("eraseConfiguration", NoToken),
            [Request("switchChannel", NoToken) EXCEPT !.hasChannel = TRUE],
            [Request("reboot", NoToken) EXCEPT !.rebootPorts = 2],
            UsbRequest(NoToken, TRUE, Name2, 4, TRUE, Fill(LocalCap, 9)),
            FirmwareRequest(NoToken, 0, Fill(BlockSize, 1), FALSE, 0),
            FirmwareRequest(NoToken, 0, Fill(BlockSize, 1), TRUE, Digest(Fill(BlockSize, 1)))},
     t \in TokenChoices}

Requests ==
  ConfigurationRequests \union FirmwareRequests \union TokenRequests

----------------------------------------------------------------------------
(* Specifications *)

\* handleSystemExclusive() called with r.
HandleSystemExclusive(r) ==
  \/ Dropped(r)
  \/ GetAll(r)
  \/ EraseConfiguration(r)
  \/ SwitchChannel(r)
  \/ Reboot(r)
  \/ WriteConfiguration(r)
  \/ WriteFirmware(r)

Next ==
  \/ Begin
  \/ ExternalReset
  \/ Return
  \/ \E r \in Requests : HandleSystemExclusive(r)
  \/ DrainYield
  \/ Tick
  \/ Activate

Spec == Init /\ [][Next]_vars

\* The configuration store and the reboot carryover, under the requests about them.
NextConfiguration ==
  \/ Begin
  \/ ExternalReset
  \/ Return
  \/ \E r \in ConfigurationRequests :
       \/ Dropped(r)
       \/ GetAll(r)
       \/ EraseConfiguration(r)
       \/ SwitchChannel(r)
       \/ Reboot(r)
       \/ WriteConfiguration(r)

\* A device class with a device-specific section, whose EEPROM is erased or holds
\* a record written earlier, powered up with retained memory that lacks the magic.
InitConfiguration ==
  /\ Init
  /\ configuration.data
  /\ eeprom = Fill(EepromSize, ErasedByte) \/ HeaderSize(eeprom) = U32(SizeofConfiguration)
  /\ HeaderMagic(eeprom) # LocalMagic
  /\ bootData._magic # BootMagic

SpecConfiguration == InitConfiguration /\ [][NextConfiguration]_vars

\* The configuration store: every EEPROM content and collaborator, under the
\* requests that write and erase the store.
StoreRequests ==
  {UsbRequest(NoToken, TRUE, Name31, MaxPorts, TRUE, [i \in 1..LocalCap |-> i]),
   UsbRequest(NoToken, TRUE, Name2, 1, FALSE, <<>>),
   UsbRequest(NoToken, TRUE, <<>>, Absent, FALSE, <<>>),
   Request("eraseConfiguration", NoToken),
   Request("getAll", NoToken)}

NextStore ==
  \/ Begin
  \/ ExternalReset
  \/ Return
  \/ \E r \in StoreRequests :
       \/ GetAll(r)
       \/ EraseConfiguration(r)
       \/ WriteConfiguration(r)

SpecStore == Init /\ [][NextStore]_vars

\* The firmware update, on a device whose EEPROM holds a record.
InitFirmware ==
  /\ Init
  /\ configuration.data
  /\ HeaderAccepted(eeprom, DefaultConfiguration)
  /\ HeaderSize(eeprom) = U32(SizeofConfiguration)
  /\ bootData._magic # BootMagic

NextFirmware ==
  \/ Begin
  \/ Return
  \/ \E r \in FirmwareRequests :
       \/ GetAll(r)
       \/ WriteFirmware(r)
  \/ DrainYield
  \/ Tick
  \/ Activate

SpecFirmware == InitFirmware /\ [][NextFirmware]_vars

\* The firmware update with a clock that advances and a handler that keeps running;
\* the transport may never take a packet.
SpecFirmwareLive == SpecFirmware /\ WF_vars(Tick) /\ WF_vars(Activate)

\* Every method under every choice of token.
NextToken ==
  \/ Begin
  \/ ExternalReset
  \/ Return
  \/ \E r \in TokenRequests : HandleSystemExclusive(r)
  \/ DrainYield
  \/ Tick
  \/ Activate

SpecToken == InitFirmware /\ [][NextToken]_vars

\* The replies: EEPROMs whose record holds a name with characters outside ASCII, well
\* formed or not, or a name whose escaped form is longer than the message buffer.
LongName == [i \in 1..16 |-> IF i % 2 = 1 THEN 195 ELSE 169]

ReplyNames ==
  {<<67, 68>>, <<67, 195, 169>>, <<226, 130, 172, 66>>, <<239, 191, 190>>, <<239, 191, 191, 66>>,
   <<240, 144, 128, 128>>, <<240, 159, 152, 128, 66>>,
   <<65, 128, 66>>, <<255, 66>>, <<195, 65>>, <<226, 130, 66>>,
   LongName}

ReplyEeproms ==
  {EepromImage(ConfigMagic, SizeofConfiguration, n, 1, LocalMagic, LocalCap, Fill(LocalCap, 5)) :
     n \in ReplyNames}

ReplyRequests ==
  {Request("getAll", NoToken),
   [Request("switchChannel", NoToken) EXCEPT !.hasChannel = TRUE],
   UsbRequest(NoToken, TRUE, <<195, 169, 66>>, Absent, FALSE, <<>>),
   UsbRequest(NoToken, TRUE, LongName, Absent, FALSE, <<>>)}

InitReply ==
  /\ pc = "reset"
  /\ configuration \in Collaborators
  /\ configuration.data
  /\ eeprom \in ReplyEeproms
  /\ _configuration = DefaultConfiguration
  /\ system = DefaultSystem
  /\ localData = LocalDefault(configuration)
  /\ bootData \in ColdBootData
  /\ bootData._magic # BootMagic
  /\ _boot = 0
  /\ usb = [pid |-> UsbPid, ports |-> 1]
  /\ secondary = [boot |-> FALSE, fw |-> Fill(ImageSize, ErasedByte)]
  /\ primary = Fill(ImageSize, 0)
  /\ drain = [pending |-> 0, elapsed |-> 0]
  /\ req = NoRequest
  /\ trace = <<>>

NextReply ==
  \/ Begin
  \/ ExternalReset
  \/ Return
  \/ \E r \in ReplyRequests :
       \/ GetAll(r)
       \/ SwitchChannel(r)
       \/ WriteConfiguration(r)

SpecReply == InitReply /\ [][NextReply]_vars

\* Records whose device-specific section fails a check of readEEPROM(): the magic
\* of another device class, size zero, a size above the collaborator's capacity.
ForeignLocalRecords ==
  { EepromImage(ConfigMagic, SizeofConfiguration, StoredName, 3, ConfigMagic, LocalCap, Fill(LocalCap, 5)),
    EepromImage(ConfigMagic, SizeofConfiguration, StoredName, 3, LocalMagic, 0, Fill(LocalCap, 5)),
    EepromImage(ConfigMagic, SizeofConfiguration, StoredName, 3, LocalMagic, LocalCap + 1, Fill(LocalCap, 5)) }

\* The configuration store powered up with any EEPROM content, records of another
\* device class included.
InitRecord ==
  /\ pc = "reset"
  /\ configuration \in Collaborators
  /\ eeprom \in InitialEeproms \cup ForeignLocalRecords
  /\ _configuration = DefaultConfiguration
  /\ system = DefaultSystem
  /\ localData = LocalDefault(configuration)
  /\ bootData \in ColdBootData
  /\ _boot = 0
  /\ usb = [pid |-> UsbPid, ports |-> 1]
  /\ secondary = [boot |-> FALSE, fw |-> Fill(ImageSize, ErasedByte)]
  /\ primary = Fill(ImageSize, 0)
  /\ drain = [pending |-> 0, elapsed |-> 0]
  /\ req = NoRequest
  /\ trace = <<>>

\* The requests of the store, and writeConfiguration requests that set the payload
\* only, a port count only, in range or not, or a name that is too long.
RecordRequests ==
  StoreRequests \cup
    {UsbRequest(NoToken, FALSE, <<>>, p, FALSE, <<>>) : p \in {0, 2, MaxPorts + 1}} \cup
    {UsbRequest(NoToken, FALSE, <<>>, Absent, TRUE, [i \in 1..LocalCap |-> i]),
     UsbRequest(NoToken, TRUE, Name32, Absent, FALSE, <<>>)}

NextRecord ==
  \/ Begin
  \/ ExternalReset
  \/ Return
  \/ \E r \in RecordRequests :
       \/ GetAll(r)
       \/ EraseConfiguration(r)
       \/ WriteConfiguration(r)

SpecRecord == InitRecord /\ [][NextRecord]_vars

\* The sections a device class adds to the document through exportSettings(),
\* exportConfiguration(), exportInput() and exportOutput(): ASCII text of any length
\* up to the size of the buffer, by itself or followed by one character of 2 or 4
\* bytes.
Exports ==
  {Fill(n, 120) \o t : n \in 0..sysex_max_size,
                       t \in {<<>>, <<195, 169>>, <<240, 159, 152, 128>>}}

\* serializeJson() of a document with exported sections, cut at the size of the buffer.
SerializedWith(sysName, cfgName, exported) ==
  LET doc == <<123>> \o (IF sysName = NoName THEN <<>> ELSE sysName) \o <<44>> \o cfgName
               \o exported \o <<125>>
  IN  SubSeq(doc, 1, IF Len(doc) > sysex_max_size THEN sysex_max_size ELSE Len(doc))

\* sendReply() of a device class that exports sections.
FullStateWith(id, sys, sysName, c, exported, garbage) ==
  Event("sendReply",
        [FullState(id, sys, sysName, c, garbage).arg EXCEPT
           !.json    = SerializedWith(sysName, ConfigName(c), exported),
           !.message = ReplyMessage(SerializedWith(sysName, ConfigName(c), exported), garbage)])

\* getAll on a device class that exports sections.
GetAllWith(r, exported) ==
  /\ pc = "running"
  /\ Dispatched(r, "getAll")
  /\ req' = r
  /\ \E n \in SystemNames(system, _configuration), g \in UninitializedCodepoints :
       trace' = <<FullStateWith(_boot, system, n, _configuration, exported, g)>>
  /\ pc' = "return"
  /\ UNCHANGED <<eeprom, _configuration, system, configuration, localData,
                 bootData, _boot, usb, secondary, primary, drain>>

\* The framing of replies: a device with an erased EEPROM whose class exports
\* sections of every length.
InitFrame ==
  /\ Init
  /\ configuration.data
  /\ eeprom = Fill(EepromSize, ErasedByte)
  /\ bootData._magic # BootMagic

NextFrame ==
  \/ Begin
  \/ ExternalReset
  \/ Return
  \/ \E x \in Exports : GetAllWith(Request("getAll", NoToken), x)

SpecFrame == InitFrame /\ [][NextFrame]_vars

----------------------------------------------------------------------------
(* What the claims speak of *)

\* req was dispatched to method m: well framed, token accepted.
Handled(m) == req.method = m /\ Framed(req) /\ TokenAccepted(req, _boot)

\* The statuses of the firmware-status replies in trace, in order.
Statuses ==
  LET st == SelectSeq(trace, LAMBDA e : e.op = "sendFirmwareStatus")
  IN  [i \in 1..Len(st) |-> st[i].arg.status]

Called(op) == \E i \in 1..Len(trace) : trace[i].op = op

\* The bytes the data field of req decodes to.
DecodedLength == Len(Base64Decode(req.data))

\* The step is begin(): the device comes out of reset.
BeginStep == pc = "reset" /\ pc' = "running"

\* The step is handleSystemExclusive() called with req'.
HandlerStep == pc = "running" /\ req' # NoRequest

\* The header of the stored record fails one of the checks of read().
BadHeader(e) ==
  \/ HeaderMagic(e) # ConfigMagic
  \/ U32Leq(HeaderSize(e), SizeofHeader)
  \/ U32Gt(HeaderSize(e), SizeofConfiguration)

\* Storage holds the record and the payload that are in memory, as write() left them.
StoreHoldsMemory ==
  /\ SubSeq(eeprom, 1, SizeofConfiguration) = _configuration
  /\ SubSeq(eeprom, SizeofConfiguration + 1, SizeofConfiguration + configuration.size) = localData

----------------------------------------------------------------------------
(* C1 *)

\* C1: Secondary::activate() is called only for a writeFirmware request that carries a
\* hash, at an aligned offset, whose hash is the one of the image area from its start
\* through offset + decoded length (the image the device then runs); a request
\* without hash answers success, a misaligned one invalidOffset, one whose hash does
\* not match hashMismatch, and none of these activates.
C1_ActivateOnlyAfterVerifiedHash ==
  /\ Called("Secondary::activate") =>
       /\ Handled("writeFirmware") /\ req.hasFirmware /\ req.hasHash
       /\ req.offset % BlockSize = 0
       /\ Digest(SubSeq(primary, 1, req.offset + DecodedLength)) = req.hash
  /\ (pc = "return" /\ Handled("writeFirmware") /\ req.hasFirmware) =>
       /\ ~Called("Secondary::activate")
       /\ req.offset % BlockSize # 0 => Statuses = <<"invalidOffset">>
       /\ (req.offset % BlockSize = 0 /\ ~req.hasHash) => Statuses = <<"success">>
       /\ (req.offset % BlockSize = 0 /\ req.hasHash) =>
            /\ Digest(SubSeq(secondary.fw, 1, req.offset + DecodedLength)) # req.hash
            /\ Statuses = <<"hashMismatch">>

\* A final chunk at the second block was verified and the device activated the image.
C1_Witness ==
  /\ pc = "reset"
  /\ Called("Secondary::activate")
  /\ req.hasHash
  /\ req.offset = BlockSize
  /\ primary = Fill(BlockSize, 1) \o Fill(1, 3) \o Fill(BlockSize - 1, ErasedByte)
                 \o Fill(ImageSize - 2 * BlockSize, ErasedByte)

----------------------------------------------------------------------------
(* C2 *)

\* C2: a writeFirmware request whose offset is no multiple of the block size makes one
\* call only, the firmware-status reply invalidOffset: no block is written, no
\* bootloader copied, nothing verified or activated, whatever data and hash it has.
C2_MisalignedOffsetOnlyReplies ==
  (Handled("writeFirmware") /\ req.hasFirmware /\ req.offset % BlockSize # 0) =>
    /\ pc = "return"
    /\ trace = <<FirmwareStatus(_boot, "invalidOffset")>>

\* A misaligned final chunk with the right hash of what the bank would hold.
C2_Witness ==
  /\ pc = "return"
  /\ Handled("writeFirmware")
  /\ req.offset = BlockSize + 1
  /\ req.hasHash /\ req.hash # 0
  /\ DecodedLength = BlockSize
  /\ Statuses = <<"invalidOffset">>

----------------------------------------------------------------------------
(* C3 *)

\* C3: once the hash of the final chunk has verified, the request has exactly one
\* firmware-status reply, success, sent before Secondary::activate() is called;
\* hashMismatch is never sent for it.
C3_OneSuccessBeforeActivate ==
  (\E i \in 1..Len(trace) : trace[i].op = "Secondary::verify" /\ trace[i].arg.ok) =>
    /\ Statuses = <<"success">>
    /\ \A i, j \in 1..Len(trace) :
         (trace[i].op = "sendFirmwareStatus" /\ trace[j].op = "Secondary::activate") => i < j
    /\ pc = "reset" => Called("Secondary::activate")

\* The image was verified and activated after the transport took no packet in time.
C3_Witness ==
  /\ pc = "reset"
  /\ Called("Secondary::activate")
  /\ Statuses = <<"success">>
  /\ drain.pending > 0
  /\ drain.elapsed > DrainDeadline

----------------------------------------------------------------------------
(* C4 *)

\* C4: when storage holds the record and the payload as write() left them, a restart
\* and its read() bring back the same name, the same port count and, for a collaborator
\* whose magic and capacity are unchanged, the same payload bytes.
C4_WriteRestartReadRoundTrip ==
  [][(BeginStep /\ StoreHoldsMemory) =>
       /\ ConfigName(_configuration') = ConfigName(_configuration)
       /\ ConfigPorts(_configuration') = ConfigPorts(_configuration)
       /\ localData' = localData
       /\ system'.ports.configured = ConfigPorts(_configuration)
       /\ system'.name.tag = IF ConfigName(_configuration) = <<>> THEN "null" ELSE "cfg"]_vars

\* After a restart the device has read back a name of 31 characters, 16 ports and a
\* payload of full capacity that a request had written.
C4_Witness ==
  /\ pc = "running"
  /\ StoreHoldsMemory
  /\ system.name.tag = "cfg"
  /\ ConfigName(_configuration) = Name31
  /\ ConfigPorts(_configuration) = MaxPorts
  /\ localData = [i \in 1..LocalCap |-> i]

----------------------------------------------------------------------------
(* C5 *)

\* C5: when the stored header has another magic, or a size of at most the header's or
\* above the record's, the startup read leaves the record in memory, the system name,
\* the configured port count and the collaborator's buffer at their defaults.
C5_RejectedHeaderKeepsDefaults ==
  [][(BeginStep /\ BadHeader(eeprom)) =>
       /\ _configuration' = DefaultConfiguration
       /\ system'.name.tag = "null"
       /\ system'.ports.configured = 1
       /\ localData' = LocalDefault(configuration)]_vars

\* The device has started from a record of the right magic whose size is the header's.
C5_Witness ==
  /\ pc = "running"
  /\ HeaderMagic(eeprom) = ConfigMagic
  /\ HeaderSize(eeprom) = U32(SizeofHeader)
  /\ ConfigName(SubSeq(eeprom, 1, SizeofConfiguration)) = StoredName
  /\ _configuration = DefaultConfiguration
  /\ system.ports.configured = 1

----------------------------------------------------------------------------
(* C6 *)

\* C6: a request whose token is there and is not the token of this boot gets no reply
\* and changes nothing, the token of an earlier boot included; a request of a known
\* method without token, like one with the token of this boot, is dispatched.
C6_StaleTokenDropped ==
  [][HandlerStep =>
       /\ (req'.token # NoToken /\ req'.token # _boot) =>
            /\ trace' = <<>>
            /\ pc' = "return"
            /\ UNCHANGED <<eeprom, _configuration, system, configuration, localData,
                           bootData, _boot, usb, secondary, primary, drain>>
       /\ (req'.token \in {NoToken, _boot} /\ Framed(req') /\ req'.method \in Methods) =>
            /\ trace' # <<>>
            /\ trace'[Len(trace')].op \in
                 CASE req'.method = "getAll" -> {"sendReply"}
                   [] req'.method = "switchChannel" -> {"sendReply"}
                   [] req'.method = "writeConfiguration" -> {"sendReply"}
                   [] req'.method = "writeFirmware" -> {"sendFirmwareStatus"}
                   [] OTHER -> {"Firmware::reboot"}]_vars

\* An eraseConfiguration request with a token that is not the one of this boot was
\* dropped with the stored record still in place.
C6_Witness ==
  /\ pc = "return"
  /\ req.method = "eraseConfiguration"
  /\ req.token # NoToken
  /\ req.token # _boot
  /\ trace = <<>>
  /\ HeaderMagic(eeprom) = ConfigMagic

----------------------------------------------------------------------------
(* C7 *)

\* The device restarts on a reboot request that carried a port count above one.
RebootWithPorts == Handled("reboot") /\ req.rebootPorts > 1

\* C7: the restart a reboot request with N > 1 ports causes runs with N ports and
\* leaves the stored and the configured port count as they were; any other restart of
\* a device that has started before runs with the configured count, or one; every
\* startup clears the port count that retained memory carries.
C7_RebootPortsOneShot ==
  [][BeginStep =>
       /\ bootData'.n_ports = 0
       /\ RebootWithPorts =>
            /\ system'.ports.current = req.rebootPorts
            /\ system'.ports.configured = system.ports.configured
            /\ eeprom' = eeprom
       /\ (~RebootWithPorts /\ _boot # 0) =>
            system'.ports.current =
              IF system'.ports.configured > 1 THEN system'.ports.configured ELSE 1]_vars

\* The device runs with the two ports of a reboot request while three are configured,
\* and retained memory carries no port count any more.
C7_Witness ==
  /\ pc = "running"
  /\ system.ports.reboot = 2
  /\ system.ports.current = 2
  /\ system.ports.configured = 3
  /\ bootData.n_ports = 0

----------------------------------------------------------------------------
(* C8 *)

\* C8: a writeConfiguration request that carries a configuration persists the record
\* before its one full-state reply; with a name N of 1 to 31 characters and a port
\* count P of 1 to 16 the reply shows N and P as the stored name and ports and P as
\* the configured ports, and storage holds N and P for the read after a restart.
C8_WrittenValuesReplied ==
  (pc = "return" /\ Handled("writeConfiguration") /\ req.hasConfig) =>
    /\ Len(trace) = 2
    /\ trace[1].op = "EEPROM::write"
    /\ trace[2].op = "sendReply"
    /\ (/\ req.hasUsb /\ req.hasName
        /\ Len(req.name) \in 1..(SizeofName - 1)
        /\ req.ports \in 1..MaxPorts) =>
         /\ trace[2].arg.cfgName = req.name
         /\ trace[2].arg.cfgPorts = req.ports
         /\ trace[2].arg.configured = req.ports
         /\ ConfigName(SubSeq(eeprom, 1, SizeofConfiguration)) = req.name
         /\ ConfigPorts(SubSeq(eeprom, 1, SizeofConfiguration)) = req.ports

----------------------------------------------------------------------------
(* C9 *)

\* C9: a usb.name of 1 to 31 characters is stored as the name of the record, and an
\* empty usb.name clears it.
C9_NameOfOneTo31Stored ==
  (/\ pc = "return" /\ Handled("writeConfiguration")
   /\ req.hasConfig /\ req.hasUsb /\ req.hasName) =>
    /\ Len(req.name) \in 1..(SizeofName - 1) => ConfigName(_configuration) = req.name
    /\ Len(req.name) = 0 => ConfigName(_configuration) = <<>>

----------------------------------------------------------------------------
(* C10 *)

\* C10: a usb.name of more than 31 characters leaves the stored name as it was and a
\* usb.ports outside 1 to 16 leaves the stored port count as it was, while the valid
\* one of the two fields of the same request is applied.
C10_InvalidFieldsNotApplied ==
  [][(/\ HandlerStep /\ req'.method = "writeConfiguration"
      /\ Framed(req') /\ req'.token \in {NoToken, _boot}
      /\ req'.hasConfig /\ req'.hasUsb) =>
       /\ (req'.hasName /\ Len(req'.name) > SizeofName - 1) =>
            ConfigName(_configuration') = ConfigName(_configuration)
       /\ (req'.ports # Absent /\ req'.ports \notin 1..MaxPorts) =>
            ConfigPorts(_configuration') = ConfigPorts(_configuration)
       /\ (req'.hasName /\ Len(req'.name) \in 2..(SizeofName - 1)) =>
            ConfigName(_configuration') = req'.name
       /\ req'.ports \in 1..MaxPorts =>
            ConfigPorts(_configuration') = req'.ports]_vars

----------------------------------------------------------------------------
(* C11 *)

\* The full-state replies in trace.
Replies == {trace[i].arg : i \in {j \in 1..Len(trace) : trace[j].op = "sendReply"}}

\* The room escapeJSON() has in the message buffer.
EscapeRoom == sysex_max_size - 2

\* C11: when escapeJSON() returns zero length for the document of a reply, nothing is
\* handed to the transport for it.
C11_NothingSentWhenEscapeFails ==
  \A e \in Replies :
    (\A g \in UninitializedCodepoints : EscapeJSON(e.json, EscapeRoom, g) = <<>>) =>
      e.message = <<>>

----------------------------------------------------------------------------
(* C12 *)

\* Some sequence of json at or after byte i is malformed.
RECURSIVE MalformedFrom(_, _)
MalformedFrom(json, i) ==
  IF i > Len(json) THEN FALSE
  ELSE LET u == Utf8Codepoint(json, i)
       IN  u.len \notin 1..4 \/ MalformedFrom(json, i + u.len)

\* The escaped form the spec describes, of json from byte i on: bytes below 0x80 as
\* they are, a codepoint below 0x10000 as one escape, one from 0x10000 on as the
\* surrogate pair, the first byte of a malformed sequence dropped.
RECURSIVE Escaped(_, _)
Escaped(json, i) ==
  IF i > Len(json) THEN <<>>
  ELSE LET u == Utf8Codepoint(json, i)
           cp == u.codepoint
       IN  CASE u.len = -1 -> Escaped(json, i + 1)
             [] u.len = 1 -> <<json[i]>> \o Escaped(json, i + 1)
             [] u.len > 1 /\ cp < 65536 -> <<92, 117>> \o Hex4(cp) \o Escaped(json, i + u.len)
             [] OTHER -> <<92, 117>> \o Hex4(((cp - 65536) \div 1024) + 55296)
                           \o <<92, 117>> \o Hex4(((cp - 65536) % 1024) + 56320)
                           \o Escaped(json, i + u.len)

\* The escaped form of json leaves room in the message buffer.
Fits(json) == Len(Escaped(json, 1)) < EscapeRoom

\* C12: the message of a reply whose document is well-formed UTF-8 and fits has bytes
\* below 0x80 only and is the escaped form of the document: ASCII unchanged, one
\* \uXXXX for a codepoint below 0x10000 (0xFFFF included), the surrogate pair above.
C12_WellFormedEscaped ==
  \A e \in Replies :
    (~MalformedFrom(e.json, 1) /\ Fits(e.json)) =>
      /\ \A k \in 3..(Len(e.message) - 1) : e.message[k] < 128
      /\ e.message = <<240, 125>> \o Escaped(e.json, 1) \o <<247>>

----------------------------------------------------------------------------
(* C13 *)

\* C13: the message of a reply whose document holds a malformed UTF-8 sequence is the
\* escaped form of the document without that sequence: nothing is emitted for it and
\* every well-formed character after it is encoded.
C13_MalformedSkipped ==
  \A e \in Replies :
    (MalformedFrom(e.json, 1) /\ Fits(e.json)) =>
      e.message = <<240, 125>> \o Escaped(e.json, 1) \o <<247>>

----------------------------------------------------------------------------
(* C14 *)

\* The step handles a writeFirmware request with a firmware object at an aligned offset.
ChunkStep ==
  /\ HandlerStep
  /\ req'.method = "writeFirmware" /\ Framed(req') /\ req'.token \in {NoToken, _boot}
  /\ req'.hasFirmware
  /\ req'.offset % BlockSize = 0

\* The bytes of the chunk req' carries.
ChunkBytes == CHOOSE c \in Chunks : Base64Encode(c) = req'.data

\* C14: a chunk without hash that is handled when the bank already holds it, as after
\* a first write of the same offset and data, is written again and answered with
\* success, and leaves the bank with the contents it had.
C14_ChunkWriteIdempotent ==
  [][(ChunkStep /\ ~req'.hasHash) =>
       /\ Len(trace') = 2
       /\ trace'[1].op = "Secondary::writeBlock"
       /\ trace'[1].arg.offset = req'.offset
       /\ trace'[2] = FirmwareStatus(_boot, "success")
       /\ pc' = "return"
       /\ (SubSeq(secondary.fw, req'.offset + 1, req'.offset + BlockSize)
             = ChunkBytes \o Fill(BlockSize - Len(ChunkBytes), ErasedByte)) =>
            secondary' = secondary]_vars

\* A short chunk without hash has been written at the second block, after another
\* chunk at the first.
C14_Witness ==
  /\ pc = "return"
  /\ Handled("writeFirmware") /\ req.hasFirmware /\ ~req.hasHash
  /\ req.offset = BlockSize
  /\ Statuses = <<"success">>
  /\ SubSeq(secondary.fw, 1, 2 * BlockSize)
       = Fill(BlockSize, 2) \o Fill(1, 3) \o Fill(BlockSize - 1, ErasedByte)

----------------------------------------------------------------------------
(* C15 *)

\* C15: handling a writeFirmware request changes neither the running image nor the
\* record in memory, the EEPROM or the retained boot data; a request whose hash does
\* not match answers hashMismatch and returns without reboot or activation, and the
\* device is back in loop() for further requests.
C15_WriteFirmwareFrame ==
  [][/\ (HandlerStep /\ req'.method = "writeFirmware") =>
          UNCHANGED <<primary, _configuration, eeprom, bootData, localData>>
     /\ (/\ ChunkStep /\ req'.hasHash
         /\ Digest(SubSeq(secondary'.fw, 1, req'.offset + Len(ChunkBytes))) # req'.hash) =>
          /\ pc' = "return"
          /\ trace'[Len(trace')] = FirmwareStatus(_boot, "hashMismatch")
          /\ \A i \in 1..Len(trace') :
               trace'[i].op \notin {"Secondary::activate", "Firmware::reboot"}
     /\ (pc = "return" /\ Statuses = <<"hashMismatch">>) =>
          /\ pc' = "running"
          /\ UNCHANGED <<primary, secondary, _boot>>]_vars

\* A final chunk with a hash that does not match was answered, the bootloader copy
\* is in the bank and the device runs its image.
C15_Witness ==
  /\ pc = "return"
  /\ Statuses = <<"hashMismatch">>
  /\ req.offset = BlockSize
  /\ secondary.boot
  /\ primary = Fill(ImageSize, 0)

----------------------------------------------------------------------------
(* C16 *)

\* C16: a buffer of less than 24 bytes, without the id 0x7D, without the braces, that
\* does not parse, without the device object or with a method that is not known gets
\* no reply and changes nothing.
C16_MalformedDropped ==
  [][(/\ HandlerStep
      /\ \/ req'.len < MinLen
         \/ req'.id # 125
         \/ ~req'.braces
         \/ ~req'.parses
         \/ ~req'.hasDevice
         \/ req'.method \notin Methods) =>
       /\ trace' = <<>>
       /\ pc' = "return"
       /\ UNCHANGED <<eeprom, _configuration, system, configuration, localData,
                      bootData, _boot, usb, secondary, primary, drain>>]_vars

\* A writeConfiguration request in a buffer of 23 bytes was dropped on a device that
\* holds a stored name.
C16_Witness ==
  /\ pc = "return"
  /\ req.len = MinLen - 1
  /\ req.method = "writeConfiguration"
  /\ trace = <<>>
  /\ ConfigName(_configuration) = StoredName

----------------------------------------------------------------------------
(* C18 *)

\* C18: a chunk of at most a block written at an aligned offset leaves its bytes at
\* the offset, 0xFF from their end to the end of the block, and every other byte of
\* the bank as it was.
C18_BlockPaddedAndPlaced ==
  [][(ChunkStep /\ Len(ChunkBytes) <= BlockSize) =>
       /\ Len(secondary'.fw) = Len(secondary.fw)
       /\ \A k \in 1..Len(secondary.fw) :
            secondary'.fw[k] =
              IF k - req'.offset \in 1..Len(ChunkBytes) THEN ChunkBytes[k - req'.offset]
              ELSE IF k - req'.offset \in 1..BlockSize THEN ErasedByte
              ELSE secondary.fw[k]]_vars

\* A chunk of one byte was written at the first block over a full chunk, the second
\* block holding another chunk.
C18_Witness ==
  /\ pc = "return"
  /\ Handled("writeFirmware") /\ req.hasFirmware
  /\ req.offset = 0
  /\ SubSeq(secondary.fw, 1, 2 * BlockSize)
       = Fill(1, 3) \o Fill(BlockSize - 1, ErasedByte) \o Fill(BlockSize, 1)

----------------------------------------------------------------------------
(* C19 *)

\* C19: with a clock that advances, a handler in the flush loop reaches
\* Secondary::activate() and the reset, whether or not the transport takes a packet.
C19_DrainEndsInActivate ==
  (pc = "drain") ~> (pc = "reset" /\ Called("Secondary::activate"))

\* The image was activated with every packet still pending, the deadline gone by.
C19_Witness ==
  /\ pc = "reset"
  /\ Called("Secondary::activate")
  /\ drain.pending = MaxPending
  /\ drain.elapsed > DrainDeadline
  /\ drain.elapsed <= DrainDeadline + TickStep

----------------------------------------------------------------------------
(* C20 *)

\* C20: an eraseConfiguration request erases all of the EEPROM and reboots without a
\* reply; the startup that follows leaves the record, the system name and the
\* configured port count at their defaults.
C20_EraseThenDefaults ==
  [][/\ (HandlerStep /\ req'.method = "eraseConfiguration"
           /\ Framed(req') /\ req'.token \in {NoToken, _boot}) =>
          /\ \A i \in 1..Len(eeprom') : eeprom'[i] = ErasedByte
          /\ Len(eeprom') = Len(eeprom)
          /\ pc' = "reset"
          /\ trace' # <<>>
          /\ trace'[Len(trace')].op = "Firmware::reboot"
          /\ \A i \in 1..Len(trace') : trace'[i].op \notin {"sendReply", "sendFirmwareStatus"}
     /\ (BeginStep /\ Handled("eraseConfiguration")) =>
          /\ _configuration' = DefaultConfiguration
          /\ system'.name.tag = "null"
          /\ system'.ports.configured = 1
          /\ system'.ports.current = 1]_vars

\* The EEPROM was erased on a device that runs with a name of 31 characters and 16
\* ports it had written, and the device is about to start again.
C20_Witness ==
  /\ pc = "reset"
  /\ Handled("eraseConfiguration")
  /\ eeprom = Fill(EepromSize, ErasedByte)
  /\ ConfigName(_configuration) = Name31
  /\ system.ports.configured = MaxPorts

----------------------------------------------------------------------------
(* C21 *)

\* The step is a writeConfiguration request that reaches writeConfiguration().
WriteStep ==
  /\ HandlerStep /\ req'.method = "writeConfiguration"
  /\ Framed(req') /\ req'.token \in {NoToken, _boot}
  /\ req'.hasConfig

\* The stamps of writeConfiguration() in the stored record e, and the payload behind it.
RecordStamped(e, cdesc, local) ==
  /\ HeaderMagic(e) = ConfigMagic
  /\ HeaderSize(e) = U32(SizeofConfiguration)
  /\ LocalMagicOf(e) = cdesc.magic
  /\ LocalSizeOf(e) = U32(cdesc.size)
  /\ SubSeq(e, SizeofConfiguration + 1, SizeofConfiguration + cdesc.size) = local

\* The port count and the name of the stored record e are in range.
RecordInRange(e) ==
  /\ ConfigPorts(e) \in 1..MaxPorts
  /\ \E i \in 1..SizeofName : e[NameOffset + i] = 0

----------------------------------------------------------------------------
(* C22 *)

\* The device-specific section of the stored record e fails one of its checks.
LocalFails(e, cdesc) ==
  \/ ~cdesc.data
  \/ LocalMagicOf(e) # cdesc.magic
  \/ LocalSizeOf(e) = U32(0)
  \/ U32Gt(LocalSizeOf(e), cdesc.size)

\* The common section of the stored record e, as far as its header declares it, over
\* the record as constructed.
CommonRead(e) == Memcpy(DefaultConfiguration, 0, e, HeaderSize(e)[2])

\* C22: at startup with a stored record whose header is accepted, the stored name
\* and port count are applied whether or not the device-specific section passes its
\* checks; a section that fails leaves the collaborator's buffer as constructed; a
\* section that passes has its local.size bytes copied from right behind the stored
\* common record, whose size the header declares, to the start of the buffer, and
\* the bytes of the buffer behind them stay as constructed.
C22_ReadStagesIndependent ==
  [][(BeginStep /\ ~BadHeader(eeprom)) =>
       /\ _configuration' = CommonRead(eeprom)
       /\ ConfigName(CommonRead(eeprom)) # <<>> => system'.name.tag = "cfg"
       /\ system'.ports.configured =
            IF ConfigPorts(CommonRead(eeprom)) > 1
              THEN ConfigPorts(CommonRead(eeprom))
              ELSE DefaultSystem.ports.configured
       /\ LocalFails(eeprom, configuration) =>
            localData' = LocalDefault(configuration)
       /\ ~LocalFails(eeprom, configuration) =>
            /\ Len(localData') = configuration.size
            /\ LocalSizeOf(eeprom)[2] <= configuration.size
            /\ \A i \in 1..configuration.size :
                 localData'[i] = IF i <= LocalSizeOf(eeprom)[2]
                                   THEN eeprom[HeaderSize(eeprom)[2] + i]
                                   ELSE LocalDefault(configuration)[i]]_vars

\* The device runs with the name and the three ports of a stored record whose
\* device-specific section carries the magic of another device class, and the
\* collaborator's buffer is as constructed.
C22_Witness ==
  /\ pc = "running"
  /\ configuration.data
  /\ ~BadHeader(eeprom)
  /\ LocalMagicOf(eeprom) # configuration.magic
  /\ system.name.tag = "cfg"
  /\ ConfigName(_configuration) = StoredName
  /\ system.ports.configured = 3
  /\ localData = LocalDefault(configuration)

----------------------------------------------------------------------------
(* C23 *)

\* C23: every message sendReply() hands to the transport, start byte, 0x7d, escaped
\* document and end byte together, is at most sysex_max_size bytes long, the size of
\* the buffer it is written to, whatever the length of the serialized document.
C23_ReplyFitsBuffer ==
  \A e \in Replies : Len(e.message) <= sysex_max_size

----------------------------------------------------------------------------
(* C24 *)

\* The port count begin() selects from the reboot override and the configured count.
SelectedPorts(reboot, configured) ==
  IF reboot > 1 THEN reboot ELSE IF configured > 1 THEN configured ELSE 1

\* C24: every startup leaves system.ports.current at the reboot override when that
\* is above one, else at the configured count when that is above one, else at one,
\* within 1 to 16, and announces the USB product id usb.pid + current - 1; no
\* request changes either until the next startup.
C24_ActivePortsInRange ==
  [][/\ BeginStep =>
          /\ system'.ports.current =
               SelectedPorts(system'.ports.reboot, system'.ports.configured)
          /\ system'.ports.current \in 1..MaxPorts
          /\ usb'.pid = UsbPid + system'.ports.current - 1
     /\ ~BeginStep =>
          /\ system'.ports.current = system.ports.current
          /\ usb' = usb]_vars

====
